---- MODULE Spec2Model ----
(***************************************************************************)
(* A model of bikeshare_2.py: the interactive session of main() (prompts,  *)
(* load_data, filter_data, the four aggregators, the row viewer and the    *)
(* restart prompt) over small trip tables.                                 *)
(*                                                                         *)
(* Text is modelled as a tuple of one-character strings, so that lower(),  *)
(* title(), membership in a list of names and the lexicographic order used *)
(* by pandas' mode() are computed, never assumed.                          *)
(***************************************************************************)
EXTENDS Integers, Sequences, FiniteSets, TLC

(***************************************************************************)
(* Bounds of the model.                                                    *)
(***************************************************************************)
\* longest trip table drawn for the data files
MaxRows == 2
\* longest table handed to the row viewer in SpecViewer
MaxViewRows == 12
\* most "view 5 rows" requests accepted in one run of display_data
MaxRequests == 4
\* largest trip duration drawn for a row
MaxDur == 2

(***************************************************************************)
(* Text.                                                                   *)
(***************************************************************************)
\* the characters of the model in code-point order: space < A..Z < a..z
Alphabet ==
  << " ", "A", "B", "C", "D", "E", "F", "G", "H", "I", "J", "K", "L", "M",
     "N", "O", "P", "Q", "R", "S", "T", "U", "V", "W", "X", "Y", "Z",
     "a", "b", "c", "d", "e", "f", "g", "h", "i", "j", "k", "l", "m",
     "n", "o", "p", "q", "r", "s", "t", "u", "v", "w", "x", "y", "z" >>

\* position of a character in code-point order
Ord(c) == CHOOSE i \in 1..Len(Alphabet) : Alphabet[i] = c

IsUpperChar(c) == Ord(c) \in 2..27
IsLowerChar(c) == Ord(c) \in 28..53
IsLetter(c) == IsUpperChar(c) \/ IsLowerChar(c)
LowerChar(c) == IF IsUpperChar(c) THEN Alphabet[Ord(c) + 26] ELSE c
UpperChar(c) == IF IsLowerChar(c) THEN Alphabet[Ord(c) - 26] ELSE c

\* str.lower()
Lower(s) == [i \in 1..Len(s) |-> LowerChar(s[i])]

\* str.title(): a letter that follows a non-letter is upper-cased, every
\* other letter is lower-cased
Title(s) ==
  [i \in 1..Len(s) |->
     IF i = 1 \/ ~IsLetter(s[i - 1]) THEN UpperChar(s[i]) ELSE LowerChar(s[i])]

\* s < t in Python's order on str (code points, a proper prefix is smaller)
StrLess(s, t) ==
  \E k \in 1..(Len(t)) :
     /\ \A j \in 1..(k - 1) : j <= Len(s) /\ s[j] = t[j]
     /\ \/ k = Len(s) + 1
        \/ k <= Len(s) /\ Ord(s[k]) < Ord(t[k])

\* x in list
InList(x, list) == \E i \in 1..Len(list) : list[i] = x

\* list.index(x) + 1 for an x that is in the list (0-based index plus one)
IndexPlusOne(list, x) == CHOOSE i \in 1..Len(list) : list[i] = x /\ \A j \in 1..(i - 1) : list[j] # x

s_chicago == <<"c", "h", "i", "c", "a", "g", "o">>
s_new_york == <<"n", "e", "w", " ", "y", "o", "r", "k">>
s_washington == <<"w", "a", "s", "h", "i", "n", "g", "t", "o", "n">>
s_january == <<"j", "a", "n", "u", "a", "r", "y">>
s_february == <<"f", "e", "b", "r", "u", "a", "r", "y">>
s_march == <<"m", "a", "r", "c", "h">>
s_april == <<"a", "p", "r", "i", "l">>
s_may == <<"m", "a", "y">>
s_june == <<"j", "u", "n", "e">>
s_monday == <<"m", "o", "n", "d", "a", "y">>
s_tuesday == <<"t", "u", "e", "s", "d", "a", "y">>
s_wednesday == <<"w", "e", "d", "n", "e", "s", "d", "a", "y">>
s_thursday == <<"t", "h", "u", "r", "s", "d", "a", "y">>
s_friday == <<"f", "r", "i", "d", "a", "y">>
s_saturday == <<"s", "a", "t", "u", "r", "d", "a", "y">>
s_sunday == <<"s", "u", "n", "d", "a", "y">>
s_Monday == <<"M", "o", "n", "d", "a", "y">>
s_Tuesday == <<"T", "u", "e", "s", "d", "a", "y">>
s_Wednesday == <<"W", "e", "d", "n", "e", "s", "d", "a", "y">>
s_Thursday == <<"T", "h", "u", "r", "s", "d", "a", "y">>
s_Friday == <<"F", "r", "i", "d", "a", "y">>
s_Saturday == <<"S", "a", "t", "u", "r", "d", "a", "y">>
s_Sunday == <<"S", "u", "n", "d", "a", "y">>
s_y == <<"y">>
s_yes == <<"y", "e", "s">>
s_ye == <<"y", "e">>
s_n == <<"n">>
s_no == <<"n", "o">>
s_empty == << >>

\* a local variable that holds no value (its frame is not active, or it
\* has not been assigned yet)
Unbound == << "<unbound>" >>

(***************************************************************************)
(* The answers typed at the prompts, drawn from small sets: valid ones in  *)
(* several letter cases and invalid ones.                                  *)
(***************************************************************************)
CityAnswers ==
  { s_chicago,
    <<"N", "e", "w", " ", "Y", "o", "r", "k">>,
    <<"W", "A", "S", "H", "I", "N", "G", "T", "O", "N">>,
    <<"b", "o", "s", "t", "o", "n">> }

YesNoAnswers ==
  { s_y, <<"Y", "e", "s">>, s_ye, <<"N", "O">>, <<"m", "a", "y", "b", "e">> }

MonthAnswers ==
  { s_january, <<"F", "e", "b", "r", "u", "a", "r", "y">>,
    <<"J", "U", "N", "E">>, <<"j", "u", "l", "y">> }

DayAnswers ==
  { s_monday, s_Sunday, s_saturday, <<"S", "A", "T", "U", "R", "D", "A", "Y">>,
    <<"f", "u", "n", "d", "a", "y">> }

RestartAnswers ==
  { s_yes, s_no, <<"N">>, <<"m", "a", "y", "b", "e">> }

(***************************************************************************)
(* Trip records.  A row of a data file holds a start time of the year 2017 *)
(* (the year of the data set) as [month, day, hour], a duration, the two   *)
(* stations, the user type and the gender.                                 *)
(***************************************************************************)
\* an empty cell of a data file, read by pandas as NaN
NaN == << "<NaN>" >>
\* the value of a column the data file does not have
NoColumn == << "<no column>" >>

st_A == << "A" >>
st_B == << "B" >>
s_Subscriber == <<"S", "u", "b", "s", "c", "r", "i", "b", "e", "r">>
s_Customer == <<"C", "u", "s", "t", "o", "m", "e", "r">>
s_Male == <<"M", "a", "l", "e">>
s_Female == <<"F", "e", "m", "a", "l", "e">>

\* Sunday 1 January 2017, 00h; Monday 2 January 2017, 13h; Monday 5 June 2017, 00h
SunJan1 == [month |-> 1, day |-> 1, hour |-> 0]
MonJan2 == [month |-> 1, day |-> 2, hour |-> 13]
MonJun5 == [month |-> 6, day |-> 5, hour |-> 0]

CsvRow(st, dur, start, end, utype, gender) ==
  [ Start_Time |-> st, Trip_Duration |-> dur, Start_Station |-> start,
    End_Station |-> end, User_Type |-> utype, Gender |-> gender ]

\* every sequence of at most n rows drawn from kinds
Tables(kinds, n) == UNION { [1..k -> kinds] : k \in 0..n }

\* rows that differ in their start time only
TimeRows == { CsvRow(st, 1, st_A, st_B, s_Subscriber, s_Male) : st \in {SunJan1, MonJan2, MonJun5} }
\* rows that differ in their stations only
StationRows == { CsvRow(SunJan1, 1, a, b, s_Subscriber, s_Male) : a \in {st_A, st_B}, b \in {st_A, st_B} }
\* rows that differ in their duration only
DurationRows == { CsvRow(SunJan1, d, st_A, st_B, s_Subscriber, s_Male) : d \in 0..MaxDur }
\* rows that differ in user type and gender, either of which may be missing
UserRows ==
  { CsvRow(SunJan1, 1, st_A, st_B, ug[1], ug[2]) :
      ug \in { <<s_Subscriber, s_Male>>, <<s_Customer, s_Female>>,
               <<s_Subscriber, NaN>>, <<NaN, s_Male>> } }
\* the row of the tables handed to the row viewer
ViewRow == CsvRow(SunJan1, 1, st_A, st_B, s_Subscriber, s_Male)

\* the durations 10, 20, 30 of the specification's example
ExampleDurations ==
  [i \in 1..3 |-> CsvRow(SunJan1, 10 * i, st_A, st_B, s_Subscriber, s_Male)]
\* three rows with two user types of different frequency and a missing gender
ExampleUsers ==
  << CsvRow(SunJan1, 1, st_A, st_B, s_Customer, s_Female),
     CsvRow(SunJan1, 1, st_A, st_B, s_Subscriber, NaN),
     CsvRow(SunJan1, 1, st_A, st_B, s_Subscriber, s_Male) >>

\* CITY_DATA, lines 6-8
CITY_DATA ==
  (s_chicago :> "chicago.csv") @@ (s_new_york :> "new_york_city.csv")
    @@ (s_washington :> "washington.csv")

\* the three data files holding the trips T; washington.csv has no Gender
\* column
FilesOf(T) ==
  [ f \in {"chicago.csv", "new_york_city.csv", "washington.csv"} |->
      IF f = "washington.csv"
      THEN [i \in 1..Len(T) |-> [T[i] EXCEPT !.Gender = NoColumn]]
      ELSE T ]

\* days of 2017 before the first of each month
DaysBefore == << 0, 31, 59, 90, 120, 151, 181, 212, 243, 273, 304, 334 >>
DayNames == << s_Monday, s_Tuesday, s_Wednesday, s_Thursday, s_Friday, s_Saturday, s_Sunday >>
\* Series.dt.day_name() of a date of 2017 (1 January 2017 was a Sunday)
day_name(st) == DayNames[((DaysBefore[st.month] + st.day + 5) % 7) + 1]

\* load_data, lines 106-116: the rows of the city's file, labelled 0, 1, ...
\* by pandas, with the three derived columns
load_data(fs, c) ==
  LET rows == fs[CITY_DATA[c]] IN
  [ i \in 1..Len(rows) |->
      [ index |-> i - 1,
        Start_Time |-> rows[i].Start_Time,
        Trip_Duration |-> rows[i].Trip_Duration,
        Start_Station |-> rows[i].Start_Station,
        End_Station |-> rows[i].End_Station,
        User_Type |-> rows[i].User_Type,
        Gender |-> rows[i].Gender,
        month |-> rows[i].Start_Time.month,
        day_of_week |-> day_name(rows[i].Start_Time),
        hour |-> rows[i].Start_Time.hour ] ]

\* df[mask]: the rows at the positions of the boolean mask (the set of
\* positions where it is True), in their order
Masked(t, mask) ==
  [ j \in 1..Cardinality(mask) |->
      t[CHOOSE i \in mask : Cardinality({h \in mask : h < i}) = j - 1] ]

months == << s_january, s_february, s_march, s_april, s_may, s_june >>

\* filter_data with the day filter skipped whenever a month is given
FilterDataElif(t, mo, dy) ==
  IF mo # s_empty
  THEN Masked(t, {i \in 1..Len(t) : t[i].month = IndexPlusOne(months, mo)})
  ELSE IF dy # s_empty
       THEN Masked(t, {i \in 1..Len(t) : t[i].day_of_week = Title(dy)})
       ELSE t

\* filter_data, lines 130-145
filter_data(t, mo, dy) ==
  LET byMonth ==
        IF mo # s_empty
        THEN Masked(t, {i \in 1..Len(t) : t[i].month = IndexPlusOne(months, mo)})
        ELSE t
  IN  IF dy # s_empty
      THEN Masked(byMonth, {i \in 1..Len(byMonth) : byMonth[i].day_of_week = Title(dy)})
      ELSE byMonth

(***************************************************************************)
(* pandas' column operations.                                              *)
(***************************************************************************)
\* df[name]: one column of a table
Col(t, name) == [i \in 1..Len(t) |-> t[i][name]]

\* a missing cell: a column of dtype int64 has none, a column of text
\* (dtype object) has NaN where the file's cell is empty
IsNaN(v, dtype) == dtype = "object" /\ v = NaN

\* Series.dropna(): the values of a column without its missing cells
DropNaN(vals, dtype) == Masked(vals, {i \in 1..Len(vals) : ~IsNaN(vals[i], dtype)})

\* a < b in Python's order, on numbers and on text
ValueLess(a, b, dtype) == IF dtype = "int64" THEN a < b ELSE StrLess(a, b)

\* the elements of S in increasing order
Sorted(S, dtype) ==
  [ i \in 1..Cardinality(S) |->
      CHOOSE x \in S : Cardinality({y \in S : ValueLess(y, x, dtype)}) = i - 1 ]

Occurrences(vals, v) == Cardinality({i \in 1..Len(vals) : vals[i] = v})

\* Series.mode(): the most frequent values that are not missing, in
\* increasing order; empty for an empty column
Series_mode(vals, dtype) ==
  LET kept == DropNaN(vals, dtype)
      S == {kept[i] : i \in 1..Len(kept)}
      modes == {v \in S : \A w \in S : Occurrences(kept, w) <= Occurrences(kept, v)}
  IN  Sorted(modes, dtype)

\* DataFrame.mode() of two columns of text: the modes of each column on its
\* own, side by side, the shorter column padded with NaN
DataFrame_mode(c1, c2) ==
  LET m1 == Series_mode(c1, "object")
      m2 == Series_mode(c2, "object")
      n  == IF Len(m1) >= Len(m2) THEN Len(m1) ELSE Len(m2)
  IN  [ i \in 1..n |->
          << IF i <= Len(m1) THEN m1[i] ELSE NaN,
             IF i <= Len(m2) THEN m2[i] ELSE NaN >> ]

\* Series.sum()
RECURSIVE Series_sum(_)
Series_sum(vals) ==
  IF vals = << >> THEN 0 ELSE Head(vals) + Series_sum(Tail(vals))

\* int(x) replaced by round-half-up
RoundOfQuotient(num, den) == (2 * num + den) \div (2 * den)

\* int(x) of a non-negative quotient x = num / den: truncation
IntOfQuotient(num, den) == num \div den

\* value_counts(dropna=False): missing cells are counted as a value too
ValueCountsKeepNaN(vals) ==
  LET S == {vals[i] : i \in 1..Len(vals)}
      n == Cardinality(S)
  IN  { [i \in 1..n |-> [value |-> p[i], count |-> Occurrences(vals, p[i])]] :
          p \in { q \in [1..n -> S] :
                    /\ \A i, j \in 1..n : i # j => q[i] # q[j]
                    /\ \A i \in 1..(n - 1) :
                         Occurrences(vals, q[i]) >= Occurrences(vals, q[i + 1]) } }

\* Series.value_counts(): one [value, count] entry per distinct value that
\* is not missing, by decreasing count; pandas leaves the order of entries
\* of equal count open, so every such order is a possible result
value_counts(vals) ==
  LET kept == DropNaN(vals, "object")
      S == {kept[i] : i \in 1..Len(kept)}
      n == Cardinality(S)
  IN  { [i \in 1..n |-> [value |-> p[i], count |-> Occurrences(kept, p[i])]] :
          p \in { q \in [1..n -> S] :
                    /\ \A i, j \in 1..n : i # j => q[i] # q[j]
                    /\ \A i \in 1..(n - 1) :
                         Occurrences(kept, q[i]) >= Occurrences(kept, q[i + 1]) } }

\* seconds shown as timedelta shows them: days, hours, minutes, seconds
timedelta(seconds) ==
  [ days |-> seconds \div 86400, hours |-> (seconds % 86400) \div 3600,
    minutes |-> (seconds % 3600) \div 60, seconds |-> seconds % 60 ]

\* strftime('%I:%M %p') of a whole hour
localized(h) ==
  [ hour12 |-> IF h % 12 = 0 THEN 12 ELSE h % 12, minute |-> 0,
    suffix |-> IF h < 12 THEN "AM" ELSE "PM" ]

\* calendar.month_name[1..12]
month_name ==
  << "January", "February", "March", "April", "May", "June", "July",
     "August", "September", "October", "November", "December" >>

(***************************************************************************)
(* The aggregators: what each prints, or the exception it raises.          *)
(***************************************************************************)
Raised(error, where) == [op |-> "raised", error |-> error, where |-> where]

\* time_stats, lines 156-170
time_stats(t, mo, dy) ==
  LET mm == Series_mode(Col(t, "month"), "int64")
      dm == Series_mode(Col(t, "day_of_week"), "object")
      hm == Series_mode(Col(t, "hour"), "int64")
  IN  IF mo = s_empty /\ mm = << >> THEN Raised("IndexError", "time_stats")
      ELSE IF dy = s_empty /\ dm = << >> THEN Raised("IndexError", "time_stats")
      ELSE IF hm = << >> THEN Raised("IndexError", "time_stats")
      ELSE [ op |-> "time_stats",
             month |-> IF mo = s_empty THEN << mm[1] >> ELSE << >>,
             month_text |-> IF mo = s_empty THEN << month_name[mm[1]] >> ELSE << >>,
             day |-> IF dy = s_empty THEN << dm[1] >> ELSE << >>,
             hour |-> hm[1],
             localized_hour |-> localized(hm[1]) ]

\* station_stats, lines 183-192
station_stats(t) ==
  LET start_station == Series_mode(Col(t, "Start_Station"), "object")
      end_station == Series_mode(Col(t, "End_Station"), "object")
      trips == DataFrame_mode(Col(t, "Start_Station"), Col(t, "End_Station"))
  IN  IF trips = << >> THEN Raised("IndexError", "station_stats")
      ELSE [ op |-> "station_stats",
             start_station |-> start_station,
             end_station |-> end_station,
             common_trip |-> trips[1] ]

\* trip_duration_stats, lines 205-210
trip_duration_stats(t) ==
  LET total == Series_sum(Col(t, "Trip_Duration")) IN
  IF t = << >> THEN Raised("ValueError", "trip_duration_stats")
  ELSE [ op |-> "trip_duration_stats",
         total |-> total,
         total_text |-> timedelta(total),
         mean |-> IntOfQuotient(total, Len(t)),
         mean_text |-> timedelta(IntOfQuotient(total, Len(t))) ]

\* user_stats, lines 223-231: every output it can print
user_stats(t, c) ==
  { [ op |-> "user_stats", user_types |-> u, gender |-> g ] :
      u \in value_counts(Col(t, "User_Type")),
      g \in IF InList(c, << s_chicago, s_new_york >>)
            THEN { << v >> : v \in value_counts(Col(t, "Gender")) }
            ELSE { << >> } }

(***************************************************************************)
(* The session of main().                                                  *)
(*                                                                         *)
(*   pc        where main() stands                                         *)
(*   files     the rows of the three data files                            *)
(*   g_city    get_city's local city: the last answer read while its loop  *)
(*             runs                                                        *)
(*   answer    check_prompt's local answer while its loop runs             *)
(*   f_month, f_day   get_filters' locals month and day                    *)
(*   city, month, day, df, restart   main's locals                        *)
(*   curr_loc  display_data's local offset (-1 while display_data is not   *)
(*             running)                                                    *)
(*   page      the rows display_data printed last                          *)
(*   shown     all rows display_data has printed in this run, in order     *)
(*   out       what the last banner or aggregator printed, or the          *)
(*             exception that ended the program                            *)
(*   selected  history: the city, month and day accepted at the prompts of *)
(*             the current session, lower-cased, Unbound until accepted    *)
(***************************************************************************)
VARIABLES pc, files, g_city, answer, f_month, f_day, city, month, day, df,
          restart, curr_loc, page, shown, out, selected

vars == << pc, files, g_city, answer, f_month, f_day, city, month, day, df,
           restart, curr_loc, page, shown, out, selected >>

NoneSelected == [city |-> Unbound, month |-> Unbound, day |-> Unbound]

Banner == [op |-> "banner"]

\* main() at line 250, nothing read yet, over the data files of trips T
InitOver(T) ==
  /\ pc = "get_city"
  /\ files = FilesOf(T)
  /\ g_city = Unbound /\ answer = Unbound
  /\ f_month = Unbound /\ f_day = Unbound
  /\ city = Unbound /\ month = Unbound /\ day = Unbound
  /\ df = << >>
  /\ restart = Unbound
  /\ curr_loc = -1 /\ page = << >> /\ shown = << >>
  /\ out = Banner
  /\ selected = NoneSelected

Init == \E T \in Tables(TimeRows, MaxRows) : InitOver(T)

\* check_prompt's two lists, lines 45 and 47
SaysYes(a) == InList(Lower(a), << s_y, s_yes, s_ye >>)
SaysNo(a) == InList(Lower(a), << s_n, s_no >>)

\* get_city, lines 19-30, one answer per step; on a valid answer main goes
\* on into get_filters (month = "", line 65)
GetCity ==
  /\ pc = "get_city"
  /\ \E a \in CityAnswers :
       IF InList(Lower(a), << s_chicago, s_new_york, s_washington >>)
       THEN /\ city' = Lower(a)
            /\ g_city' = Unbound
            /\ f_month' = s_empty
            /\ selected' = [selected EXCEPT !.city = Lower(a)]
            /\ pc' = "month_q"
       ELSE /\ g_city' = a
            /\ UNCHANGED << city, f_month, pc, selected >>
  /\ UNCHANGED << files, answer, f_day, month, day, df, restart, curr_loc,
                  page, shown, out >>

\* check_prompt of line 66, one answer per step
MonthQuestion ==
  /\ pc = "month_q"
  /\ \E a \in YesNoAnswers :
       IF SaysYes(a)
       THEN /\ pc' = "month_prompt" /\ answer' = Unbound /\ UNCHANGED f_day
       ELSE IF SaysNo(a)
       THEN /\ pc' = "day_q" /\ answer' = Unbound /\ f_day' = s_empty
       ELSE /\ answer' = a /\ UNCHANGED << pc, f_day >>
  /\ UNCHANGED << files, g_city, f_month, city, month, day, df, restart,
                  curr_loc, page, shown, out, selected >>

\* the month loop, lines 67-76, one answer per step (day = "", line 79, on
\* leaving it)
MonthPrompt ==
  /\ pc = "month_prompt"
  /\ \E a \in MonthAnswers :
       /\ f_month' = a
       /\ IF InList(Lower(a), months)
          THEN pc' = "day_q" /\ f_day' = s_empty
          ELSE UNCHANGED << pc, f_day >>
  /\ UNCHANGED << files, g_city, answer, city, month, day, df, restart,
                  curr_loc, page, shown, out, selected >>

\* the list of the day loop, line 84
AcceptedDays == << s_monday, s_tuesday, s_wednesday, s_thursday, s_friday, s_sunday >>

\* the return of get_filters with main assigning the day only
ReturnFiltersDayOnly(m, d) ==
  /\ UNCHANGED month
  /\ day' = Lower(d)
  /\ f_month' = Unbound
  /\ f_day' = Unbound
  /\ selected' = [selected EXCEPT !.month = Lower(m), !.day = Lower(d)]
  /\ pc' = "load_data"

\* return month.lower(), day.lower(), line 92, assigned by main at line 256
ReturnFilters(m, d) ==
  /\ month' = Lower(m)
  /\ day' = Lower(d)
  /\ f_month' = Unbound
  /\ f_day' = Unbound
  /\ selected' = [selected EXCEPT !.month = Lower(m), !.day = Lower(d)]
  /\ pc' = "load_data"

\* check_prompt of line 80, one answer per step
DayQuestion ==
  /\ pc = "day_q"
  /\ \E a \in YesNoAnswers :
       IF SaysYes(a)
       THEN /\ pc' = "day_prompt" /\ answer' = Unbound
            /\ UNCHANGED << f_month, f_day, month, day, selected >>
       ELSE IF SaysNo(a)
       THEN /\ answer' = Unbound /\ ReturnFilters(f_month, f_day)
       ELSE /\ answer' = a
            /\ UNCHANGED << pc, f_month, f_day, month, day, selected >>
  /\ UNCHANGED << files, g_city, city, df, restart, curr_loc, page, shown, out >>

\* the day loop, lines 81-89, one answer per step
DayPrompt ==
  /\ pc = "day_prompt"
  /\ \E a \in DayAnswers :
       IF InList(Lower(a), AcceptedDays)
       THEN ReturnFilters(f_month, a)
       ELSE /\ f_day' = a /\ UNCHANGED << pc, f_month, month, day, selected >>
  /\ UNCHANGED << files, g_city, answer, city, df, restart, curr_loc, page,
                  shown, out >>

\* df = load_data(city), line 257
LoadData ==
  /\ pc = "load_data"
  /\ df' = load_data(files, city)
  /\ pc' = "filter_data"
  /\ UNCHANGED << files, g_city, answer, f_month, f_day, city, month, day,
                  restart, curr_loc, page, shown, out, selected >>

\* df = filter_data(df, (month, day)), line 258
FilterData ==
  /\ pc = "filter_data"
  /\ df' = filter_data(df, month, day)
  /\ pc' = "time_stats"
  /\ UNCHANGED << files, g_city, answer, f_month, f_day, city, month, day,
                  restart, curr_loc, page, shown, out, selected >>

\* where main goes after an aggregator: on, or out with its exception
After(result, next) == IF result.op = "raised" THEN "crashed" ELSE next

\* time_stats(df, (month, day)), line 260
TimeStats ==
  /\ pc = "time_stats"
  /\ out' = time_stats(df, month, day)
  /\ pc' = After(out', "station_stats")
  /\ UNCHANGED << files, g_city, answer, f_month, f_day, city, month, day, df,
                  restart, curr_loc, page, shown, selected >>

\* station_stats(df), line 261
StationStats ==
  /\ pc = "station_stats"
  /\ out' = station_stats(df)
  /\ pc' = After(out', "stats_q")
  /\ UNCHANGED << files, g_city, answer, f_month, f_day, city, month, day, df,
                  restart, curr_loc, page, shown, selected >>

\* check_prompt of line 262, one answer per step
StatsQuestion ==
  /\ pc = "stats_q"
  /\ \E a \in YesNoAnswers :
       IF SaysYes(a) THEN pc' = "trip_duration_stats" /\ answer' = Unbound
       ELSE IF SaysNo(a) THEN pc' = "display_data" /\ answer' = Unbound
       ELSE answer' = a /\ UNCHANGED pc
  /\ UNCHANGED << files, g_city, f_month, f_day, city, month, day, df, restart,
                  curr_loc, page, shown, out, selected >>

\* trip_duration_stats(df), line 263
TripDurationStats ==
  /\ pc = "trip_duration_stats"
  /\ out' = trip_duration_stats(df)
  /\ pc' = After(out', "user_stats")
  /\ UNCHANGED << files, g_city, answer, f_month, f_day, city, month, day, df,
                  restart, curr_loc, page, shown, selected >>

\* user_stats(df, city), line 264
UserStats ==
  /\ pc = "user_stats"
  /\ out' \in user_stats(df, city)
  /\ pc' = "display_data"
  /\ UNCHANGED << files, g_city, answer, f_month, f_day, city, month, day, df,
                  restart, curr_loc, page, shown, selected >>

\* df.iloc[a:b]: the rows at positions a .. b-1, counted from 0, as far as
\* the table has them
iloc(t, a, b) == SubSeq(t, a + 1, IF b <= Len(t) THEN b ELSE Len(t))

\* the page printed at line 243
ViewPage(t, loc) == iloc(t, loc, loc + 5)

\* curr_loc += 6
NextLocSix(loc) == loc + 6

\* curr_loc += 5, line 244
NextLoc(loc) == loc + 5

\* display_data is entered, lines 239-240
DisplayData ==
  /\ pc = "display_data"
  /\ curr_loc' = 0
  /\ page' = << >>
  /\ shown' = << >>
  /\ pc' = "view_q"
  /\ UNCHANGED << files, g_city, answer, f_month, f_day, city, month, day, df,
                  restart, out, selected >>

\* the check_prompt of line 242, one answer per step, with the page it
\* prints on yes; at most MaxRequests pages are asked for
ViewQuestion ==
  /\ pc = "view_q"
  /\ \E a \in YesNoAnswers :
       IF SaysYes(a)
       THEN /\ curr_loc < 5 * MaxRequests
            /\ page' = ViewPage(df, curr_loc)
            /\ shown' = shown \o ViewPage(df, curr_loc)
            /\ curr_loc' = NextLoc(curr_loc)
            /\ answer' = Unbound
            /\ UNCHANGED pc
       ELSE IF SaysNo(a)
       THEN /\ pc' = "restart"
            /\ curr_loc' = -1 /\ page' = << >> /\ shown' = << >>
            /\ answer' = Unbound
       ELSE /\ answer' = a
            /\ UNCHANGED << pc, curr_loc, page, shown >>
  /\ UNCHANGED << files, g_city, f_month, f_day, city, month, day, df, restart,
                  out, selected >>

\* the restart prompt, lines 267-268; any answer but n and no begins the
\* next session with its banner, lines 251-253
RestartPrompt ==
  /\ pc = "restart"
  /\ \E a \in RestartAnswers :
       /\ restart' = a
       /\ IF InList(Lower(a), << s_n, s_no >>)
          THEN pc' = "exiting" /\ UNCHANGED << out, selected >>
          ELSE pc' = "get_city" /\ out' = Banner /\ selected' = NoneSelected
  /\ UNCHANGED << files, g_city, answer, f_month, f_day, city, month, day, df,
                  curr_loc, page, shown >>

\* input('Exiting the program...'), lines 269-270: any line ends main
Exiting ==
  /\ pc = "exiting"
  /\ pc' = "done"
  /\ UNCHANGED << files, g_city, answer, f_month, f_day, city, month, day, df,
                  restart, curr_loc, page, shown, out, selected >>

Next ==
  \/ GetCity \/ MonthQuestion \/ MonthPrompt \/ DayQuestion \/ DayPrompt
  \/ LoadData \/ FilterData \/ TimeStats \/ StationStats \/ StatsQuestion
  \/ TripDurationStats \/ UserStats \/ DisplayData \/ ViewQuestion
  \/ RestartPrompt \/ Exiting

Spec == Init /\ [][Next]_vars

\* the same session over tables that differ in their stations
InitStations == \E T \in Tables(StationRows, MaxRows) : InitOver(T)
SpecStations == InitStations /\ [][Next]_vars

\* the same session over tables that differ in their durations
InitDurations ==
  \E T \in Tables(DurationRows, MaxRows) \cup {ExampleDurations} : InitOver(T)
SpecDurations == InitDurations /\ [][Next]_vars

\* the same session over tables that differ in user type and gender
InitUsers ==
  \E T \in Tables(UserRows, MaxRows) \cup {ExampleUsers} : InitOver(T)
SpecUsers == InitUsers /\ [][Next]_vars

\* display_data(df) called on a table of 0 .. MaxViewRows rows: main() at
\* line 266 of a session over chicago with no filter
InitViewer ==
  \E k \in 0..MaxViewRows :
     LET T == [i \in 1..k |-> ViewRow] IN
     /\ pc = "display_data"
     /\ files = FilesOf(T)
     /\ g_city = Unbound /\ answer = Unbound
     /\ f_month = Unbound /\ f_day = Unbound
     /\ city = s_chicago /\ month = s_empty /\ day = s_empty
     /\ df = filter_data(load_data(FilesOf(T), s_chicago), s_empty, s_empty)
     /\ restart = Unbound
     /\ curr_loc = -1 /\ page = << >> /\ shown = << >>
     /\ out = Banner
     /\ selected = [city |-> s_chicago, month |-> s_empty, day |-> s_empty]
SpecViewer == InitViewer /\ [][Next]_vars

(***************************************************************************)
(* Properties.                                                             *)
(***************************************************************************)
\* the number 1..6 of a month name january..june
MonthNumber(m) ==
  CASE m = s_january -> 1 [] m = s_february -> 2 [] m = s_march -> 3
    [] m = s_april -> 4 [] m = s_may -> 5 [] m = s_june -> 6

\* a name with its first letter in upper case and the others in lower case
Capitalized(d) ==
  [i \in 1..Len(d) |-> IF i = 1 THEN UpperChar(d[i]) ELSE LowerChar(d[i])]

\* a record satisfies the constraints (m, d); an empty constraint is absent
Matches(r, m, d) ==
  /\ m = s_empty \/ r.month = MonthNumber(m)
  /\ d = s_empty \/ r.day_of_week = Capitalized(d)

\* t holds exactly the records of full that satisfy (m, d), in full's order
ExactlyTheMatching(t, full, m, d) ==
  /\ \A j \in 1..Len(t) : \E i \in 1..Len(full) : t[j] = full[i]
  /\ \A i \in 1..Len(full) :
       Matches(full[i], m, d) <=> \E j \in 1..Len(t) : t[j] = full[i]
  /\ \A j, k \in 1..Len(t) : j < k => t[j].index < t[k].index

\* C1: right after filter_data, the filtered table holds exactly the
\* records of the loaded table whose month number is the requested month's
\* (if a month is requested) and whose weekday name is the capitalized
\* requested day (if a day is requested), in the order of the loaded table.
C1_FilterExact ==
  pc = "time_stats" =>
    ExactlyTheMatching(df, load_data(files, city), month, day)

\* C1's case: both constraints given, some records kept and some removed
C1_Witness ==
  /\ pc = "time_stats"
  /\ month # s_empty /\ day # s_empty
  /\ Len(df) > 0
  /\ Len(df) < Len(load_data(files, city))

\* the rows of t at the 0-based positions a .. a+4, as far as t has them
RowsFrom(t, a) ==
  [ j \in 1..(IF Len(t) - a >= 5 THEN 5 ELSE IF Len(t) - a > 0 THEN Len(t) - a ELSE 0)
      |-> t[a + j] ]

\* the first n rows of t, all of t if it has fewer
FirstRows(t, n) == [j \in 1..(IF n <= Len(t) THEN n ELSE Len(t)) |-> t[j]]

C2_Step ==
  /\ (pc = "display_data" /\ pc' = "view_q") => curr_loc' = 0 /\ shown' = << >>
  /\ (pc = "view_q" /\ pc' = "view_q" /\ curr_loc' # curr_loc) =>
       /\ curr_loc' = curr_loc + 5
       /\ page' = RowsFrom(df, curr_loc)
       /\ shown' = shown \o page'
  /\ pc' = "view_q" =>
       /\ shown' = FirstRows(df', curr_loc')
       /\ (curr_loc' > 0 /\ page' = << >>) => shown' = df'

\* C2: display_data starts at offset 0; each accepted request prints the
\* records at positions [offset, offset+5) (fewer or none at the end) and
\* advances the offset by exactly 5; the pages printed so far are the first
\* offset records of the table, and once an empty page has been printed
\* they are the whole table, each record once and in order.
C2_PagesExact == [][C2_Step]_vars

\* C2's case: a table of 12 rows, paged through to the first empty page
C2_Witness ==
  /\ pc = "view_q"
  /\ Len(df) = 12
  /\ curr_loc = 20
  /\ page = << >>
  /\ shown = df

\* how often the pair (a, b) occurs as the stations of one record
PairCount(t, a, b) ==
  Cardinality({i \in 1..Len(t) : t[i].Start_Station = a /\ t[i].End_Station = b})

\* C3: the most common trip printed by station_stats is the pair of
\* stations of some record, and no pair occurs in more records than it.
C3_TripIsJointMode ==
  out.op = "station_stats" =>
    /\ \E i \in 1..Len(df) :
         << df[i].Start_Station, df[i].End_Station >> = out.common_trip
    /\ \A i \in 1..Len(df) :
         PairCount(df, df[i].Start_Station, df[i].End_Station)
           <= PairCount(df, out.common_trip[1], out.common_trip[2])

\* the smallest of the most frequent values of a non-empty column
SmallestMostFrequent(vals, dtype) ==
  LET top == {v \in {vals[i] : i \in 1..Len(vals)} :
                \A i \in 1..Len(vals) : Occurrences(vals, vals[i]) <= Occurrences(vals, v)}
  IN  CHOOSE v \in top : \A w \in top : w = v \/ ValueLess(v, w, dtype)

\* C4: every mode-based statistic is printed as one value, the smallest of
\* the most frequent values: month, weekday and hour by time_stats, start
\* station and end station by station_stats.
C4_OneSmallestMode ==
  /\ out.op = "time_stats" =>
       /\ out.month # << >> =>
            out.month = << SmallestMostFrequent(Col(df, "month"), "int64") >>
       /\ out.day # << >> =>
            out.day = << SmallestMostFrequent(Col(df, "day_of_week"), "object") >>
       /\ out.hour = SmallestMostFrequent(Col(df, "hour"), "int64")
  /\ out.op = "station_stats" =>
       /\ out.start_station
            = << SmallestMostFrequent(Col(df, "Start_Station"), "object") >>
       /\ out.end_station
            = << SmallestMostFrequent(Col(df, "End_Station"), "object") >>

\* C5: when the filter has selected no record of a table that has some,
\* the session is not ended by an unhandled failure: the program does not
\* stop on an exception, and what an aggregator raises is the explicit
\* EmptyDataset error.
C5_EmptyIsHandled ==
  (df = << >> /\ pc \notin {"get_city", "month_q", "month_prompt", "day_q",
                           "day_prompt", "load_data", "filter_data"}
     /\ Len(load_data(files, city)) > 0) =>
    /\ pc # "crashed"
    /\ out.op = "raised" => out.error = "EmptyDataset"

RECURSIVE CountSum(_, _)
\* the sum of the counts of the first n entries of a breakdown
CountSum(vc, n) == IF n = 0 THEN 0 ELSE CountSum(vc, n - 1) + vc[n].count

Descending(vc) == \A i \in 1..(Len(vc) - 1) : vc[i].count >= vc[i + 1].count

HasGenderData(c) == c = s_chicago \/ c = s_new_york

\* the number of records of t with a value in the column
Present(t, name) == Cardinality({i \in 1..Len(t) : t[i][name] # NaN})

\* C6 as stated: the user-type breakdown is in descending order, the gender
\* breakdown is printed exactly for chicago and new york, and the counts of
\* each printed breakdown sum to the number of records of the table.
C6_CountsSumToTotal ==
  out.op = "user_stats" =>
    /\ Descending(out.user_types)
    /\ out.gender # << >> <=> HasGenderData(city)
    /\ CountSum(out.user_types, Len(out.user_types)) = Len(df)
    /\ out.gender # << >> =>
         CountSum(out.gender[1], Len(out.gender[1])) = Len(df)

\* C6 amended: as above, but the counts of a breakdown sum to the number of
\* records that have a value in that column (records with a missing user
\* type or gender are left out of the breakdown).
C6_CountsSumToPresent ==
  out.op = "user_stats" =>
    /\ Descending(out.user_types)
    /\ out.gender # << >> <=> HasGenderData(city)
    /\ CountSum(out.user_types, Len(out.user_types)) = Present(df, "User_Type")
    /\ out.gender # << >> =>
         /\ Descending(out.gender[1])
         /\ CountSum(out.gender[1], Len(out.gender[1])) = Present(df, "Gender")

\* C6's case: a city with gender data, a table with a missing gender and
\* two user types of different frequency
C6_Witness ==
  /\ out.op = "user_stats"
  /\ city = s_chicago
  /\ out.gender # << >>
  /\ Present(df, "Gender") < Len(df)
  /\ Len(out.user_types) = 2
  /\ out.user_types[1].count > out.user_types[2].count

\* the seven weekday names
AllSevenDays ==
  << s_monday, s_tuesday, s_wednesday, s_thursday, s_friday, s_saturday, s_sunday >>

C7_Step ==
  /\ pc = "day_prompt" =>
       \/ pc' = "load_data" /\ InList(day', AllSevenDays)
       \/ pc' = "day_prompt" /\ ~InList(Lower(f_day'), AllSevenDays)
  /\ (pc = "filter_data" /\ day # s_empty) =>
       \A i \in 1..Len(df) :
          (df[i].day_of_week = Capitalized(day)
             /\ (month = s_empty \/ df[i].month = MonthNumber(month)))
          <=> \E j \in 1..Len(df') : df'[j] = df[i]

\* C7: an answer to the day prompt is rejected (and the prompt repeated)
\* only if it is none of the seven weekday names in any letter case; an
\* accepted answer is returned lower-cased, and the filter that follows
\* keeps exactly the records of that weekday.
C7_SevenDaysAccepted == [][C7_Step]_vars

\* the answer a prompt holds after a step, Unbound once its loop has ended
Typed(p) ==
  CASE p = "get_city" -> g_city'
    [] p = "month_prompt" -> f_month'
    [] p = "day_prompt" -> f_day'
    [] p = "restart" -> restart'
    [] OTHER -> answer'

\* what each prompt asks for
ValidAt(p, a) ==
  CASE p = "get_city" -> InList(Lower(a), << s_chicago, s_new_york, s_washington >>)
    [] p = "month_prompt" -> InList(Lower(a), months)
    [] p = "day_prompt" -> InList(Lower(a), AllSevenDays)
    [] OTHER -> SaysYes(a) \/ SaysNo(a)

PromptPcs ==
  { "get_city", "month_q", "month_prompt", "day_q", "day_prompt", "stats_q",
    "view_q", "restart" }

C8_Step ==
  /\ (pc \in PromptPcs /\ Typed(pc) # Unbound /\ ~ValidAt(pc, Typed(pc))) =>
       /\ pc' = pc
       /\ UNCHANGED << city, month, day, df, curr_loc, page, shown, out >>
  /\ pc' = "load_data" =>
       /\ InList(city', << s_chicago, s_new_york, s_washington >>)
       /\ month' = s_empty \/ InList(month', months)

\* C8: at every prompt, the restart prompt included, an invalid answer only
\* repeats the prompt: no operation runs and no session starts or ends;
\* load_data is reached with one of the three cities and a month that is
\* empty or one of january..june only.
C8_InvalidReprompts == [][C8_Step]_vars

RECURSIVE DurationSum(_, _)
\* the sum of the durations of the first n records
DurationSum(t, n) ==
  IF n = 0 THEN 0 ELSE DurationSum(t, n - 1) + t[n].Trip_Duration

\* C9: trip_duration_stats prints the exact sum of the durations as total
\* and the floor of sum / count as average: 60 and 20 seconds for the
\* durations 10, 20, 30, and 1 second for the durations 1, 2.
C9_TotalAndMean ==
  out.op = "trip_duration_stats" =>
    LET n == Len(df)
        total == DurationSum(df, n)
    IN  /\ out.total = total
        /\ out.mean * n <= total
        /\ total < (out.mean + 1) * n
        /\ Col(df, "Trip_Duration") = << 10, 20, 30 >> =>
             out.total = 60 /\ out.mean = 20
        /\ Col(df, "Trip_Duration") = << 1, 2 >> => out.mean = 1

\* C9's case: a mean with a fraction, 1.5, printed as 1
C9_Witness ==
  /\ out.op = "trip_duration_stats"
  /\ Col(df, "Trip_Duration") = << 1, 2 >>
  /\ out.mean = 1

\* the steps of main() from one position to another, in the order of its
\* code; an exception ends the program
SessionOrder ==
  { << "get_city", "month_q" >>, << "month_q", "month_prompt" >>,
    << "month_q", "day_q" >>, << "month_prompt", "day_q" >>,
    << "day_q", "day_prompt" >>, << "day_q", "load_data" >>,
    << "day_prompt", "load_data" >>, << "load_data", "filter_data" >>,
    << "filter_data", "time_stats" >>, << "time_stats", "station_stats" >>,
    << "station_stats", "stats_q" >>, << "stats_q", "trip_duration_stats" >>,
    << "stats_q", "display_data" >>, << "trip_duration_stats", "user_stats" >>,
    << "user_stats", "display_data" >>, << "display_data", "view_q" >>,
    << "view_q", "restart" >>, << "restart", "get_city" >>,
    << "restart", "exiting" >>, << "exiting", "done" >>,
    << "time_stats", "crashed" >> }

\* the positions at which the filtered table is read
Reading ==
  { "time_stats", "station_stats", "stats_q", "trip_duration_stats",
    "user_stats", "display_data", "view_q" }

C10_Step ==
  /\ pc' # pc => << pc, pc' >> \in SessionOrder
  /\ pc \in Reading => UNCHANGED << df, city, month, day >>
  /\ pc' \in Reading \cup {"load_data", "filter_data"} =>
       /\ city' = selected'.city
       /\ month' = selected'.month
       /\ day' = selected'.day
  /\ pc' = "filter_data" => Len(df') = Len(files[CITY_DATA[selected'.city]])
  /\ pc' = "time_stats" =>
       \A j \in 1..Len(df') :
          LET row == files[CITY_DATA[selected'.city]][df'[j].index + 1] IN
          /\ df'[j].Start_Time = row.Start_Time
          /\ df'[j].Start_Station = row.Start_Station
          /\ df'[j].Trip_Duration = row.Trip_Duration
  /\ pc' = "view_q" /\ pc # "view_q" => curr_loc' = 0

\* C10: main() moves through its operations in the order of SessionOrder
\* only (selection, one load_data, one filter_data, time_stats,
\* station_stats, the optional trip_duration_stats and user_stats, the row
\* viewer, the restart prompt); while the filtered table is read it and the
\* selection stay as they are; the table loaded and filtered is that of the
\* city, month and day selected in the current session, and every run of
\* the row viewer begins at offset 0.
C10_SessionOrder == [][C10_Step]_vars

\* C10's case: the row viewer of a session that follows a restart, entered
\* after all four aggregators have run
C10_Witness ==
  /\ pc = "view_q"
  /\ restart # Unbound
  /\ curr_loc = 0
  /\ out.op = "user_stats"
  /\ Len(df) > 0

====
